---- MODULE Spec2Model ----
(***************************************************************************)
(* The generic state-space search engine of src/util/Search.h: the driver  *)
(* Search<Node, State, Compare>::perform() and the five strategies BFS,    *)
(* DFS, IDDFS, UCS and AStar that plug into it.                            *)
(*                                                                         *)
(* A node pointer is the position of the node in m_nodes; 0 is nullptr.    *)
(* The node a loop iteration has just made and has not yet stored          *)
(* (next_node) lives at the position after the last node of m_nodes.       *)
(***************************************************************************)
EXTENDS Integers, Sequences, FiniteSets, TLC

\* ------------------------------------------------------------------ bounds

\* States of the small graphs are 0 .. NumStates-1; every directed graph
\* without self-loops over them is an input.
NumStates == 3

\* The deep graphs are a chain 0 -> 1 -> ... -> ChainLen plus one extra edge.
ChainLen == 5

\* Largest cost a state carries (State::cost) and largest heuristic value.
MaxCost == 1
MaxH == 1

\* Largest heuristic value on the diamond graphs.
MaxGuess == 2

\* Number of nodes m_nodes can hold before make_unique throws std::bad_alloc.
MaxNodes == 24

\* Runes: players added, runes given by one action, actions in the history.
MaxPlayers == 2
MaxGive == 2
MaxHistory == 3

\* Messenger: worker threads, callbacks of a topic.
NumWorkers == 2
MaxCallbacks == 1

\* ------------------------------------------------------- program constants

\* IDDFS::IDDFS: m_maximum_search_depth(3).
InitialDepth == 3

nullptr == 0

Strategies == {"BFS", "DFS", "IDDFS", "UCS", "AStar"}

\* Compare is void for BFS, DFS and IDDFS (a deque), std::greater<> for UCS
\* and AStar (a priority queue).
IsVoidCompare(strat) == strat \in {"BFS", "DFS", "IDDFS"}

VARIABLES
    strategy,                 \* which class the engine is
    m_initial,                \* Search::m_initial
    m_successors,             \* Search::m_successors: state -> sequence of states
    m_is_goal,                \* Search::m_is_goal, as the set of states it accepts
    state_cost,               \* State::cost of every state (UCS, AStar)
    m_heuristic,              \* AStar::m_heuristic
    m_nodes,                  \* Search::m_nodes
    m_frontier,               \* Search::m_frontier (deque, or the heap array)
    m_visited,                \* Search::m_visited: a set of node pointers
    m_maximum_search_depth,   \* IDDFS::m_maximum_search_depth
    m_increase_search_depth,  \* IDDFS::m_increase_search_depth
    pc,                       \* where perform() is
    node,                     \* perform()'s local node
    found,                    \* perform()'s local found
    result,                   \* what perform() returned
    expansions,               \* history: per state, calls of m_successors in this pass
    cutoffs,                  \* history: the cutoff of every pass begun
    too_deep,                 \* history: this pass made a node deeper than the cutoff
    first,                    \* the outcome of the engine run before this one
    m_board,                  \* Runes::m_board: vertex -> the keys of its edges
    connected,                \* what Runes::connected() returned
    m_players,                \* Runes::m_players: per player, Player::m_runes
    m_history,                \* Runes::m_history
    performed,                \* what the last Runes::perform() returned
    m_queue,                  \* Messenger::m_queue
    m_mutex,                  \* Messenger::m_mutex: the worker holding it, or Free
    m_channels,               \* Messenger::m_channels: per topic, mutex and callbacks
    m_stop_source,            \* Messenger::m_stop_source: stop requested
    m_workers,                \* Messenger::m_workers: every worker()'s position and locals
    published,                \* history: the number of messages published
    delivered                 \* history: per topic, the removals and callback calls in order

vars == << strategy, m_initial, m_successors, m_is_goal, state_cost, m_heuristic,
           m_nodes, m_frontier, m_visited, m_maximum_search_depth,
           m_increase_search_depth, pc, node, found, result, expansions,
           cutoffs, too_deep, first, m_board, connected, m_players, m_history,
           performed, m_queue, m_mutex, m_channels, m_stop_source, m_workers,
           published, delivered >>

input == << strategy, m_initial, m_successors, m_is_goal, state_cost, m_heuristic >>

runes == << m_board, connected, m_players, m_history, performed >>

messenger == << m_queue, m_mutex, m_channels, m_stop_source, m_workers, published,
               delivered >>

\* A Runes object as constructed: no vertex on the board, connected() not called.
NotCalled == [returned |-> FALSE]

Returned(value) == [returned |-> TRUE, value |-> value]

NoBoard ==
    /\ m_board = << >>
    /\ connected = NotCalled

\* perform() was not called.
NotPerformed == [success |-> FALSE, action |-> [type |-> "none"]]

\* No player, no action performed.
NoPlayers ==
    /\ m_players = << >>
    /\ m_history = << >>
    /\ performed = NotPerformed

\* A std::mutex nobody holds; a held one is the number of the worker holding it.
Free == 0

\* No Messenger is constructed.
NoMessenger ==
    /\ m_queue = << >>
    /\ m_mutex = Free
    /\ m_channels = << >>
    /\ m_stop_source = FALSE
    /\ m_workers = << >>
    /\ published = 0
    /\ delivered = << >>

\* ------------------------------------------------------------------ inputs

SmallStates == 0 .. (NumStates - 1)
DeepStates == 0 .. ChainLen
States == SmallStates \cup DeepStates

RECURSIVE SetToSeq(_)
\* The elements of a set of integers in ascending order.
SetToSeq(S) ==
    IF S = {} THEN << >>
    ELSE LET m == CHOOSE x \in S : \A y \in S : x <= y
         IN  << m >> \o SetToSeq(S \ {m})

Reverse(s) == [i \in 1 .. Len(s) |-> s[Len(s) + 1 - i]]

\* A graph is given by the set of successors of every state; the successor
\* function enumerates them in ascending or in descending order.
SmallEdgeSets ==
    { [s \in States |-> IF s \in SmallStates THEN f[s] ELSE {}] :
        f \in [SmallStates -> SUBSET SmallStates] }

ChainEdges == [s \in States |-> IF s \in DeepStates /\ s < ChainLen THEN {s + 1} ELSE {}]

DeepEdgeSets ==
    { [ChainEdges EXCEPT ![a] = @ \cup {b}] : a \in DeepStates, b \in DeepStates }

NoSelfLoop(g) == \A s \in States : s \notin g[s]

Ascending(g) == [s \in States |-> SetToSeq(g[s])]
Descending(g) == [s \in States |-> Reverse(SetToSeq(g[s]))]

SmallGraphs ==
    { Ascending(g) : g \in { e \in SmallEdgeSets : NoSelfLoop(e) } }
    \cup { Descending(g) : g \in { e \in SmallEdgeSets : NoSelfLoop(e) } }

\* The graphs that carry costs: a state leads to some of the next two states
\* around the ring of the small states, enumerated in ascending order.
OnRing(g) == \A s \in SmallStates : g[s] \subseteq { (s + 1) % NumStates, (s + 2) % NumStates }

RingGraphs == { Ascending(g) : g \in { e \in SmallEdgeSets : NoSelfLoop(e) /\ OnRing(e) } }

DeepGraphs == { Ascending(g) : g \in { e \in DeepEdgeSets : NoSelfLoop(e) } }

ZeroOn == [s \in States |-> 0]

\* Costs of the states: the largest cost everywhere, or costs that go up
\* with the state and start over.
FewCosts ==
    { [s \in States |-> MaxCost], [s \in States |-> s % (MaxCost + 1)] }

\* The same, and no cost anywhere, and the costs shifted by one state.
SomeCosts ==
    FewCosts \cup { ZeroOn, [s \in States |-> (s + 1) % (MaxCost + 1)] }

FewHeuristics ==
    { ZeroOn, [s \in States |-> (s + 1) % (MaxH + 1)] }

\* perform() tests the initial state first, so every goal predicate that
\* accepts the initial state 0 behaves like {0}: the goal predicates are {0}
\* and the sets of other states.
SmallGoals == { {0} } \cup SUBSET (SmallStates \ {0})
FewGoals == { {} } \cup { {s} : s \in SmallStates }

\* ------------------------------------------------------------------- nodes

\* A node of any of the four node types; the fields a type does not have
\* stay 0.  SearchNode: state, parent.  IDDFSNode: state, parent, k.
\* UCSNode: state, parent, cost.  AStarNode: state, parent, cost, total.
Node(state, parent, k, cost, total) ==
    [state |-> state, parent |-> parent, k |-> k, cost |-> cost, total |-> total]

\* Mutant of make_node: IDDFSNode takes the depth of its parent as its own.
make_node_parent_depth(mem, state, parent) ==
    CASE strategy \in {"BFS", "DFS"} ->
            Node(state, parent, 0, 0, 0)
      [] strategy = "IDDFS" ->
            Node(state, parent, IF parent # nullptr THEN mem[parent].k ELSE 0, 0, 0)
      [] strategy = "UCS" ->
            Node(state, parent, 0,
                 IF parent # nullptr THEN mem[parent].cost + state_cost[state] ELSE 0, 0)
      [] strategy = "AStar" ->
            LET cost == IF parent # nullptr
                        THEN mem[parent].cost + state_cost[state] ELSE 0
            IN  Node(state, parent, 0, cost, cost + m_heuristic[state])

\* Mutant of make_node: the root of UCS and AStar is charged the cost of
\* the initial state.
make_node_root_charged(mem, state, parent) ==
    CASE strategy \in {"BFS", "DFS"} ->
            Node(state, parent, 0, 0, 0)
      [] strategy = "IDDFS" ->
            Node(state, parent, IF parent # nullptr THEN mem[parent].k + 1 ELSE 0, 0, 0)
      [] strategy = "UCS" ->
            Node(state, parent, 0,
                 (IF parent # nullptr THEN mem[parent].cost ELSE 0) + state_cost[state], 0)
      [] strategy = "AStar" ->
            LET cost == (IF parent # nullptr THEN mem[parent].cost ELSE 0)
                        + state_cost[state]
            IN  Node(state, parent, 0, cost, cost + m_heuristic[state])

\* Search::make_node as every strategy overrides it, with the constructor of
\* the strategy's node type.  mem is the memory holding the parent.
make_node(mem, state, parent) ==
    CASE strategy \in {"BFS", "DFS"} ->
            Node(state, parent, 0, 0, 0)
      [] strategy = "IDDFS" ->
            Node(state, parent, IF parent # nullptr THEN mem[parent].k + 1 ELSE 0, 0, 0)
      [] strategy = "UCS" ->
            Node(state, parent, 0,
                 IF parent # nullptr THEN mem[parent].cost + state_cost[state] ELSE 0, 0)
      [] strategy = "AStar" ->
            LET cost == IF parent # nullptr
                        THEN mem[parent].cost + state_cost[state] ELSE 0
            IN  Node(state, parent, 0, cost, cost + m_heuristic[state])

\* ------------------------------------------------------------ visited set

RECURSIVE Xor(_, _)
\* Bitwise exclusive or of two naturals.
Xor(a, b) ==
    IF a = 0 THEN b
    ELSE IF b = 0 THEN a
    ELSE ((a + b) % 2) + 2 * Xor(a \div 2, b \div 2)

\* std::hash of a node, per node type; std::hash of a state or of a number
\* is the number itself.
NodeHash(n) ==
    CASE strategy \in {"BFS", "DFS"} -> n.state
      [] strategy = "IDDFS" -> Xor(n.state, n.k * 2)
      [] strategy = "UCS" -> Xor(n.state, n.cost * 2)
      [] strategy = "AStar" -> Xor(Xor(n.state, n.cost * 2), n.total * 4)

\* Search::Hash: the hash of a node pointer is the hash of the node.
Hash(mem, p) == NodeHash(mem[p])

\* m_visited is std::unordered_set<Node*, Hash>: its third template argument
\* is left to the default, std::equal_to<Node*>, which compares the pointers.
KeyEqual(mem, p, q) == p = q

\* Mutant of visited_find: the tracker is keyed by the state of the node.
visited_find_by_state(mem, visited, p) ==
    { q \in visited : mem[q].state = mem[p].state }

\* m_visited.find(p): the pointers in m_visited that hash like p and are
\* equal to p; the empty set stands for m_visited.end().
visited_find(mem, visited, p) ==
    { q \in visited : KeyEqual(mem, q, p) /\ Hash(mem, q) = Hash(mem, p) }

\* --------------------------------------------------------------- frontier

\* Mutant of Compare: AStar is built with std::less<>, not std::greater<>.
Compare_less(mem, l, r) ==
    IF strategy = "UCS" THEN mem[l].cost > mem[r].cost
    ELSE mem[l].total < mem[r].total

\* The comparison the priority queue is built with:
\* Compare{}(*l, *r) with Compare = std::greater<>, on operator<=> of the
\* node type (cost for UCSNode, total for AStarNode).
Compare(mem, l, r) ==
    IF strategy = "UCS" THEN mem[l].cost > mem[r].cost
    ELSE mem[l].total > mem[r].total

RECURSIVE push_heap(_, _, _, _, _)
\* std::__push_heap: move the hole up from position hole (counted from 0)
\* while the parent compares before value, then put value in the hole.
push_heap(mem, h, hole, top, value) ==
    LET parent == (hole - 1) \div 2
    IN  IF hole > top /\ Compare(mem, h[parent + 1], value)
        THEN push_heap(mem, [h EXCEPT ![hole + 1] = h[parent + 1]], parent, top, value)
        ELSE [h EXCEPT ![hole + 1] = value]

RECURSIVE adjust_heap_down(_, _, _, _)
\* The first loop of std::__adjust_heap: move the hole down to a leaf along
\* the children that do not compare before their sibling.  Yields the heap
\* and the position reached.
adjust_heap_down(mem, h, len, second) ==
    IF second < (len - 1) \div 2
    THEN LET right == 2 * (second + 1)
             child == IF Compare(mem, h[right + 1], h[right]) THEN right - 1 ELSE right
         IN  adjust_heap_down(mem, [h EXCEPT ![second + 1] = h[child + 1]], len, child)
    ELSE [heap |-> h, hole |-> second]

\* std::__adjust_heap(first, 0, len, value).
adjust_heap(mem, h, len, value) ==
    LET down == adjust_heap_down(mem, h, len, 0)
        only == IF len % 2 = 0 /\ down.hole = (len - 2) \div 2
                THEN [heap |-> [down.heap EXCEPT ![down.hole + 1] =
                                    down.heap[2 * (down.hole + 1)]],
                      hole |-> 2 * (down.hole + 1) - 1]
                ELSE down
    IN  push_heap(mem, only.heap, only.hole, 0, value)

\* std::priority_queue::push: c.push_back(p); std::push_heap(c.begin(), c.end()).
queue_push(mem, h, p) == push_heap(mem, Append(h, p), Len(h), 0, p)

\* std::priority_queue::pop: std::pop_heap(c.begin(), c.end()); c.pop_back().
queue_pop(mem, h) ==
    IF Len(h) > 1
    THEN adjust_heap(mem, SubSeq(h, 1, Len(h) - 1), Len(h) - 1, h[Len(h)])
    ELSE << >>

\* Search::frontier_push: [pushed |-> the return value, frontier |-> m_frontier after].
Search_frontier_push(mem, visited, frontier, p) ==
    IF visited_find(mem, visited, p) # {}
    THEN [pushed |-> FALSE, frontier |-> frontier]
    ELSE [pushed |-> TRUE,
          frontier |-> IF IsVoidCompare(strategy) THEN Append(frontier, p)
                       ELSE queue_push(mem, frontier, p)]

\* Mutant of IDDFS_frontier_push: a node at the cutoff is rejected too.
IDDFS_frontier_push_strict(mem, visited, frontier, incr, p) ==
    IF visited_find(mem, visited, p) # {}
    THEN [pushed |-> FALSE, frontier |-> frontier, incr |-> incr]
    ELSE IF mem[p].k >= m_maximum_search_depth
    THEN [pushed |-> FALSE, frontier |-> frontier, incr |-> TRUE]
    ELSE LET r == Search_frontier_push(mem, visited, frontier, p)
         IN  [pushed |-> r.pushed, frontier |-> r.frontier, incr |-> incr]

\* IDDFS::frontier_push; incr is m_increase_search_depth after the call.
IDDFS_frontier_push(mem, visited, frontier, incr, p) ==
    IF visited_find(mem, visited, p) # {}
    THEN [pushed |-> FALSE, frontier |-> frontier, incr |-> incr]
    ELSE IF mem[p].k > m_maximum_search_depth
    THEN [pushed |-> FALSE, frontier |-> frontier, incr |-> TRUE]
    ELSE LET r == Search_frontier_push(mem, visited, frontier, p)
         IN  [pushed |-> r.pushed, frontier |-> r.frontier, incr |-> incr]

\* AStar::frontier_push.
AStar_frontier_push(mem, visited, frontier, p) ==
    LET previous == visited_find(mem, visited, p)
    IN  IF previous = {}
        THEN Search_frontier_push(mem, visited, frontier, p)
        ELSE IF \E q \in previous : mem[q].total <= mem[p].total
        THEN [pushed |-> FALSE, frontier |-> frontier]
        ELSE Search_frontier_push(mem, visited, frontier, p)

\* The virtual call frontier_push(node) of perform().
frontier_push(mem, visited, frontier, incr, p) ==
    CASE strategy = "IDDFS" -> IDDFS_frontier_push(mem, visited, frontier, incr, p)
      [] strategy = "AStar" ->
            LET r == AStar_frontier_push(mem, visited, frontier, p)
            IN  [pushed |-> r.pushed, frontier |-> r.frontier, incr |-> incr]
      [] OTHER ->
            LET r == Search_frontier_push(mem, visited, frontier, p)
            IN  [pushed |-> r.pushed, frontier |-> r.frontier, incr |-> incr]

\* Mutant of frontier_pop: BFS takes the back of the deque as DFS does.
frontier_pop_back(mem, frontier) ==
    IF IsVoidCompare(strategy)
    THEN [node |-> frontier[Len(frontier)],
          frontier |-> SubSeq(frontier, 1, Len(frontier) - 1)]
    ELSE [node |-> Head(frontier), frontier |-> queue_pop(mem, frontier)]

\* The virtual call frontier_pop() of perform(): Search::frontier_pop takes
\* the front of the deque or the top of the priority queue; DFS::frontier_pop
\* and IDDFS::frontier_pop take the back of the deque.
frontier_pop(mem, frontier) ==
    CASE strategy = "BFS" -> [node |-> Head(frontier), frontier |-> Tail(frontier)]
      [] strategy \in {"DFS", "IDDFS"} ->
            [node |-> frontier[Len(frontier)],
             frontier |-> SubSeq(frontier, 1, Len(frontier) - 1)]
      [] OTHER -> [node |-> Head(frontier), frontier |-> queue_pop(mem, frontier)]


\* ----------------------------------------------------------------- driver

None == [some |-> FALSE, trace |-> << >>]
Some(trace) == [some |-> TRUE, trace |-> trace]

NoRun == [pc |-> "idle"]

\* perform() has ended, by a return or by an exception.
Ended == pc \in {"done", "bad_alloc"}

RECURSIVE trace_back_without_root(_, _)
\* Mutant of trace_back: the loop runs while node->parent, not while node.
trace_back_without_root(mem, p) ==
    IF p = nullptr \/ mem[p].parent = nullptr THEN << >>
    ELSE << mem[p] >> \o trace_back_without_root(mem, mem[p].parent)

RECURSIVE trace_back(_, _)
\* The loop "for (; node; node = node->parent) trace.push_back(copy of *node)".
trace_back(mem, p) ==
    IF p = nullptr THEN << >>
    ELSE << mem[p] >> \o trace_back(mem, mem[p].parent)

\* Mutant of trace_order: the trace is returned as collected, goal first.
trace_order_unreversed(trace) == trace

\* std::reverse(trace.begin(), trace.end()): start to finish ordering.
trace_order(trace) == Reverse(trace)

RECURSIVE expand_loop_orphans(_, _, _, _, _, _)
\* Mutant of expand_loop: make_node is called without the parent, whose
\* default is nullptr.
expand_loop_orphans(nodes, visited, frontier, incr, parent, succs) ==
    IF succs = << >>
    THEN [ok |-> TRUE, nodes |-> nodes, frontier |-> frontier, incr |-> incr]
    ELSE IF Len(nodes) >= MaxNodes
    THEN [ok |-> FALSE, nodes |-> nodes, frontier |-> frontier, incr |-> incr]
    ELSE LET mem == Append(nodes, make_node(nodes, Head(succs), nullptr))
             r == frontier_push(mem, visited, frontier, incr, Len(mem))
         IN  expand_loop_orphans(IF r.pushed THEN mem ELSE nodes, visited, r.frontier,
                                 r.incr, parent, Tail(succs))

RECURSIVE expand_loop(_, _, _, _, _, _)
\* The loop over m_successors(node->state) in perform(): make next_node, call
\* frontier_push on it and keep it in m_nodes when it was pushed.  ok is
\* FALSE when make_node found no room for another node.
expand_loop(nodes, visited, frontier, incr, parent, succs) ==
    IF succs = << >>
    THEN [ok |-> TRUE, nodes |-> nodes, frontier |-> frontier, incr |-> incr]
    ELSE IF Len(nodes) >= MaxNodes
    THEN [ok |-> FALSE, nodes |-> nodes, frontier |-> frontier, incr |-> incr]
    ELSE LET mem == Append(nodes, make_node(nodes, Head(succs), parent))
             r == frontier_push(mem, visited, frontier, incr, Len(mem))
         IN  expand_loop(IF r.pushed THEN mem ELSE nodes, visited, r.frontier,
                         r.incr, parent, Tail(succs))

\* Expanding the node at p makes a node deeper than the cutoff of IDDFS.
MakesTooDeep(p) ==
    /\ strategy = "IDDFS"
    /\ m_successors[m_nodes[p].state] # << >>
    /\ m_nodes[p].k + 1 > m_maximum_search_depth

\* The virtual call frontier_empty() of perform(), as far as its value goes:
\* Search::frontier_empty, and IDDFS::frontier_empty when it does not restart.
frontier_empty ==
    IF strategy = "IDDFS"
    THEN m_frontier = << >> /\ ~m_increase_search_depth
    ELSE m_frontier = << >>

\* perform() up to the loop: the root node goes into m_nodes and m_frontier.
Start ==
    /\ pc = "idle"
    /\ LET mem == Append(m_nodes, make_node(m_nodes, m_initial, nullptr))
       IN  /\ m_nodes' = mem
           /\ m_frontier' = IF IsVoidCompare(strategy) THEN Append(m_frontier, Len(mem))
                            ELSE queue_push(mem, m_frontier, Len(mem))
    /\ node' = nullptr
    /\ found' = FALSE
    /\ pc' = "loop"
    /\ expansions' = [s \in States |-> 0]
    /\ cutoffs' = << m_maximum_search_depth >>
    /\ UNCHANGED << input, runes, messenger, m_visited, m_maximum_search_depth,
                    m_increase_search_depth, result, too_deep, first >>

\* Mutant of Restart: clear() empties m_nodes and leaves m_visited as it is.
Restart_keeps_tracker ==
    /\ pc = "loop"
    /\ strategy = "IDDFS"
    /\ m_frontier = << >>
    /\ m_increase_search_depth
    /\ m_increase_search_depth' = FALSE
    /\ m_nodes' = << make_node(<< >>, m_initial, nullptr) >>
    /\ m_frontier' = << 1 >>
    /\ m_maximum_search_depth' = m_maximum_search_depth + 1
    /\ expansions' = [s \in States |-> 0]
    /\ cutoffs' = Append(cutoffs, m_maximum_search_depth + 1)
    /\ too_deep' = FALSE
    /\ UNCHANGED << input, runes, messenger, m_visited, pc, node, found, result, first >>

\* Mutant of Restart: the restart forgets clear(), the old search tree stays.
Restart_without_clear ==
    /\ pc = "loop"
    /\ strategy = "IDDFS"
    /\ m_frontier = << >>
    /\ m_increase_search_depth
    /\ m_increase_search_depth' = FALSE
    /\ m_nodes' = Append(m_nodes, make_node(<< >>, m_initial, nullptr))
    /\ m_frontier' = << Len(m_nodes) + 1 >>
    /\ m_maximum_search_depth' = m_maximum_search_depth + 1
    /\ expansions' = [s \in States |-> 0]
    /\ cutoffs' = Append(cutoffs, m_maximum_search_depth + 1)
    /\ too_deep' = FALSE
    /\ UNCHANGED << input, runes, messenger, m_visited, pc, node, found, result, first >>

\* IDDFS::frontier_empty when the frontier is empty and the depth limit was
\* reached: clear(), a new root, a deeper limit; the loop goes on.
Restart ==
    /\ pc = "loop"
    /\ strategy = "IDDFS"
    /\ m_frontier = << >>
    /\ m_increase_search_depth
    /\ m_increase_search_depth' = FALSE
    /\ m_visited' = {}
    /\ m_nodes' = << make_node(<< >>, m_initial, nullptr) >>
    /\ m_frontier' = << 1 >>
    /\ m_maximum_search_depth' = m_maximum_search_depth + 1
    /\ expansions' = [s \in States |-> 0]
    /\ cutoffs' = Append(cutoffs, m_maximum_search_depth + 1)
    /\ too_deep' = FALSE
    /\ UNCHANGED << input, runes, messenger, pc, node, found, result, first >>

\* The loop ends with frontier_empty() true: return std::nullopt.
Exhausted ==
    /\ pc = "loop"
    /\ frontier_empty
    /\ pc' = "done"
    /\ result' = None
    /\ UNCHANGED << input, runes, messenger, m_nodes, m_frontier, m_visited, m_maximum_search_depth,
                    m_increase_search_depth, node, found, expansions, cutoffs,
                    too_deep, first >>

\* An iteration that pops a goal node: break, build the trace, clear(), return it.
FoundGoal ==
    /\ pc = "loop"
    /\ m_frontier # << >>
    /\ LET pop == frontier_pop(m_nodes, m_frontier)
       IN  /\ m_nodes[pop.node].state \in m_is_goal
           /\ result' = Some(trace_order(trace_back(m_nodes, pop.node)))
    /\ found' = TRUE
    /\ node' = nullptr
    /\ m_nodes' = << >>
    /\ m_visited' = {}
    /\ m_frontier' = << >>
    /\ pc' = "done"
    /\ UNCHANGED << input, runes, messenger, m_maximum_search_depth, m_increase_search_depth,
                    expansions, cutoffs, too_deep, first >>

\* Mutant of Expand: the popped node is marked and expanded without the
\* goal test having sent a goal node out of the loop.
Expand_without_goal_test ==
    /\ pc = "loop"
    /\ m_frontier # << >>
    /\ LET pop == frontier_pop(m_nodes, m_frontier)
           state == m_nodes[pop.node].state
           visited == m_visited \cup {pop.node}
           loop == expand_loop(m_nodes, visited, pop.frontier, m_increase_search_depth,
                               pop.node, m_successors[state])
       IN  /\ loop.ok
           /\ node' = pop.node
           /\ m_visited' = visited
           /\ expansions' = [expansions EXCEPT ![state] = @ + 1]
           /\ m_nodes' = loop.nodes
           /\ m_frontier' = loop.frontier
           /\ m_increase_search_depth' = loop.incr
           /\ too_deep' = (too_deep \/ MakesTooDeep(pop.node))
    /\ UNCHANGED << input, runes, messenger, m_maximum_search_depth, pc, found, result, cutoffs, first >>

\* An iteration that pops a node that is no goal: mark it visited and push
\* the nodes of its successors.
Expand ==
    /\ pc = "loop"
    /\ m_frontier # << >>
    /\ LET pop == frontier_pop(m_nodes, m_frontier)
           state == m_nodes[pop.node].state
           visited == m_visited \cup {pop.node}
           loop == expand_loop(m_nodes, visited, pop.frontier, m_increase_search_depth,
                               pop.node, m_successors[state])
       IN  /\ state \notin m_is_goal
           /\ loop.ok
           /\ node' = pop.node
           /\ m_visited' = visited
           /\ expansions' = [expansions EXCEPT ![state] = @ + 1]
           /\ m_nodes' = loop.nodes
           /\ m_frontier' = loop.frontier
           /\ m_increase_search_depth' = loop.incr
           /\ too_deep' = (too_deep \/ MakesTooDeep(pop.node))
    /\ UNCHANGED << input, runes, messenger, m_maximum_search_depth, pc, found, result, cutoffs, first >>

\* The same iteration when m_nodes cannot take another node: make_node
\* throws std::bad_alloc, which leaves perform().
BadAlloc ==
    /\ pc = "loop"
    /\ m_frontier # << >>
    /\ LET pop == frontier_pop(m_nodes, m_frontier)
           state == m_nodes[pop.node].state
           visited == m_visited \cup {pop.node}
           loop == expand_loop(m_nodes, visited, pop.frontier, m_increase_search_depth,
                               pop.node, m_successors[state])
       IN  /\ state \notin m_is_goal
           /\ ~loop.ok
           /\ node' = pop.node
           /\ m_visited' = visited
           /\ expansions' = [expansions EXCEPT ![state] = @ + 1]
           /\ m_nodes' = loop.nodes
           /\ m_frontier' = loop.frontier
           /\ m_increase_search_depth' = loop.incr
           /\ too_deep' = too_deep
    /\ pc' = "bad_alloc"
    /\ UNCHANGED << input, runes, messenger, m_maximum_search_depth, found, result, cutoffs, first >>

\* ---------------------------------------------------------- specification

\* Mutant of Constructed: IDDFS::IDDFS leaves m_increase_search_depth raised.
Constructed_flag_raised ==
    /\ m_nodes = << >>
    /\ m_frontier = << >>
    /\ m_visited = {}
    /\ m_maximum_search_depth = InitialDepth
    /\ m_increase_search_depth = TRUE
    /\ pc = "idle"
    /\ node = nullptr
    /\ found = FALSE
    /\ result = None
    /\ expansions = [s \in States |-> 0]
    /\ cutoffs = << >>
    /\ too_deep = FALSE
    /\ first = NoRun

\* The engine as its constructor leaves it (Search::Search, IDDFS::IDDFS).
Constructed ==
    /\ m_nodes = << >>
    /\ m_frontier = << >>
    /\ m_visited = {}
    /\ m_maximum_search_depth = InitialDepth
    /\ m_increase_search_depth = FALSE
    /\ pc = "idle"
    /\ node = nullptr
    /\ found = FALSE
    /\ result = None
    /\ expansions = [s \in States |-> 0]
    /\ cutoffs = << >>
    /\ too_deep = FALSE
    /\ first = NoRun

DeepGoals == { {}, {ChainLen}, {ChainLen - 1}, {ChainLen - 1, ChainLen} }

Init ==
    /\ m_initial = 0
    /\ \/ /\ strategy \in {"BFS", "DFS", "IDDFS"}
          /\ \/ m_successors \in SmallGraphs /\ m_is_goal \in SmallGoals
             \/ m_successors \in DeepGraphs /\ m_is_goal \in DeepGoals
          /\ state_cost = ZeroOn
          /\ m_heuristic = ZeroOn
       \/ /\ strategy = "UCS"
          /\ m_successors \in RingGraphs
          /\ m_is_goal \in FewGoals
          /\ state_cost \in FewCosts
          /\ m_heuristic = ZeroOn
       \/ /\ strategy = "AStar"
          /\ m_successors \in RingGraphs
          /\ m_is_goal \in FewGoals
          /\ state_cost \in FewCosts
          /\ m_heuristic \in FewHeuristics
    /\ NoBoard
    /\ NoPlayers
    /\ NoMessenger
    /\ Constructed

Next == Start \/ Restart \/ Exhausted \/ FoundGoal \/ Expand \/ BadAlloc

Spec == Init /\ [][Next]_vars



Range(f) == { f[i] : i \in DOMAIN f }

\* ------------------------------------------------------- weighted graphs

\* More than any cost of a path without a repeated state.
Infinity == (MaxCost + 1) * Cardinality(States) + 1

Min(S) == CHOOSE x \in S : \A y \in S : x <= y

RECURSIVE Relax(_)
\* The least costs to a goal state, from estimates d that are too high:
\* entering a state costs state_cost of it.
Relax(d) ==
    LET next == [s \in States |->
                   IF s \in m_is_goal THEN 0
                   ELSE Min({d[s]} \cup { state_cost[t] + d[t] : t \in Range(m_successors[s]) })]
    IN  IF next = d THEN d ELSE Relax(next)

\* The least cost of a path from every state to a goal state; Infinity
\* where there is no such path.
LeastCost == Relax([s \in States |-> IF s \in m_is_goal THEN 0 ELSE Infinity])

\* The heuristic never overestimates the least cost to a goal.
Admissible == \A s \in States : LeastCost[s] >= Infinity \/ m_heuristic[s] <= LeastCost[s]

\* What a run of perform() came to: how it ended and, when it returned a
\* path, the state and the cumulative cost of every node of the path.
Outcome ==
    [pc |-> pc,
     some |-> result.some,
     path |-> [i \in 1 .. Len(result.trace) |->
                 [state |-> result.trace[i].state, cost |-> result.trace[i].cost]]]

\* A caller that has run UCS constructs AStar on the same initial state,
\* successor function and goal predicate, with its heuristic, to run it next.
ThenAStar ==
    /\ Ended
    /\ strategy = "UCS"
    /\ first = NoRun
    /\ first' = Outcome
    /\ strategy' = "AStar"
    /\ m_nodes' = << >>
    /\ m_frontier' = << >>
    /\ m_visited' = {}
    /\ pc' = "idle"
    /\ node' = nullptr
    /\ found' = FALSE
    /\ result' = None
    /\ expansions' = [s \in States |-> 0]
    /\ cutoffs' = << >>
    /\ UNCHANGED << m_initial, m_successors, m_is_goal, state_cost, m_heuristic,
                    m_maximum_search_depth, m_increase_search_depth, too_deep,
                    runes, messenger >>

\* The heuristics AStar is run with: 0 everywhere; the least cost to a goal,
\* as far as it does not exceed MaxH (an admissible heuristic); MaxH everywhere.
SomeHeuristics(least) ==
    { ZeroOn,
      [s \in States |-> IF least[s] < MaxH THEN least[s] ELSE MaxH],
      [s \in States |-> MaxH] }

InitPair ==
    /\ m_initial = 0
    /\ strategy = "UCS"
    /\ m_successors \in RingGraphs
    /\ m_is_goal \in FewGoals
    /\ state_cost \in SomeCosts
    /\ m_heuristic \in SomeHeuristics(LeastCost)
    /\ NoBoard
    /\ NoPlayers
    /\ NoMessenger
    /\ Constructed

NextPair == Start \/ Exhausted \/ FoundGoal \/ Expand \/ BadAlloc \/ ThenAStar

\* UCS and then AStar on the same weighted graph.
SpecPair == InitPair /\ [][NextPair]_vars

\* ------------------------------------------------- what the graph says

RECURSIVE ReachableFrom(_)
\* The states some path of successors leads to from the states of S.
ReachableFrom(S) ==
    LET T == S \cup UNION { Range(m_successors[s]) : s \in S }
    IN  IF T = S THEN S ELSE ReachableFrom(T)

Reachable == ReachableFrom({m_initial})

GoalReachable == Reachable \cap m_is_goal # {}

RECURSIVE DistFrom(_, _)
\* The least number of edges from a state of S to a goal state, plus d.
\* For use when a goal state is reachable.
DistFrom(S, d) ==
    IF S \cap m_is_goal # {} THEN d
    ELSE DistFrom(S \cup UNION { Range(m_successors[s]) : s \in S }, d + 1)

GoalDistance == DistFrom({m_initial}, 0)

PathStates == [i \in 1 .. Len(result.trace) |-> result.trace[i].state]

\* ------------------------------------------------------------------ claims

\* C1: whenever perform() returns a path, for every strategy, the first
\* element of the path is the initial state, the last element satisfies the
\* goal predicate, and every element but the first is a successor of the
\* element before it.
C1_PathRoundTrip ==
    (pc = "done" /\ result.some) =>
        /\ Len(PathStates) >= 1
        /\ PathStates[1] = m_initial
        /\ PathStates[Len(PathStates)] \in m_is_goal
        /\ \A i \in 1 .. (Len(PathStates) - 1) :
              PathStates[i + 1] \in Range(m_successors[PathStates[i]])

\* A search has returned a path of at least two edges.
C1_Witness == pc = "done" /\ result.some /\ Len(result.trace) >= 3

\* C2: within one pass of perform() no state is expanded more than once.
C2_ExpandedOnce == \A s \in States : expansions[s] <= 1

\* C3: on a finite graph in which no reachable state satisfies the goal
\* predicate, perform() ends, for every strategy, and it ends by returning None.
C3_ExhaustionReturnsNone ==
    (~GoalReachable /\ Ended) => (pc = "done" /\ result = None)

VisitedStates == { m_nodes[p].state : p \in m_visited }

\* C4: with a goal predicate that is false for every state, perform() ends
\* by returning None, and visited() is then exactly the set of states
\* reachable from the initial state.
C4_VisitedIsReachable ==
    (m_is_goal = {} /\ Ended) =>
        (pc = "done" /\ result = None /\ VisitedStates = Reachable)

\* C5: if the initial state satisfies the goal predicate, no state is ever
\* expanded and perform() returns the path that holds the initial state alone.
C5_InitialIsGoal ==
    (m_initial \in m_is_goal) =>
        /\ \A s \in States : expansions[s] = 0
        /\ pc # "bad_alloc"
        /\ pc = "done" => (result.some /\ PathStates = << m_initial >>)

\* A search whose initial state is a goal has returned, under IDDFS.
C5_Witness == m_initial \in m_is_goal /\ pc = "done" /\ strategy = "IDDFS"

\* C6: when a goal state is reachable, BFS returns a path whose number of
\* edges is the least number of edges from the initial state to a goal state.
C6_BFSShortest ==
    (strategy = "BFS" /\ GoalReachable /\ Ended) =>
        /\ pc = "done"
        /\ result.some
        /\ Len(result.trace) - 1 = GoalDistance

\* BFS has returned a path of two edges on a graph where a state other than
\* the one it went through has several successors.
C6_Witness ==
    /\ strategy = "BFS"
    /\ pc = "done"
    /\ result.some
    /\ Len(result.trace) = 3
    /\ \E s \in States : Len(m_successors[s]) >= 2


\* C9: IDDFS, starting at cutoff 3, on a graph whose nearest goal is d > 3
\* edges away, succeeds after exactly d - 2 passes, with the cutoffs
\* 3, 4, ..., d in that order, and returns a path of at most d edges.
C9_IDDFSPasses ==
    (strategy = "IDDFS" /\ GoalReachable /\ GoalDistance > InitialDepth /\ Ended) =>
        /\ pc = "done"
        /\ result.some
        /\ cutoffs = [i \in 1 .. (GoalDistance - InitialDepth + 1) |-> InitialDepth + i - 1]
        /\ Len(result.trace) - 1 <= GoalDistance

\* IDDFS has succeeded on a graph whose nearest goal is 5 edges away.
C9_Witness ==
    /\ strategy = "IDDFS"
    /\ pc = "done"
    /\ result.some
    /\ GoalDistance = 5
    /\ Len(cutoffs) = 3

\* C10: IDDFS returns None exactly when the frontier empties in a pass that
\* rejected no node for exceeding the cutoff, and on a finite graph with no
\* reachable goal it ends by returning None instead of deepening forever.
C10_IDDFSReturnsNone ==
    strategy = "IDDFS" =>
        /\ (pc = "done" /\ ~result.some) => (m_frontier = << >> /\ ~too_deep)
        /\ (pc = "loop" /\ m_frontier = << >> /\ ~too_deep) => frontier_empty
        /\ (~GoalReachable /\ Ended) => (pc = "done" /\ result = None)


ReturnedCost == result.trace[Len(result.trace)].cost

\* C7: UCS and AStar with a heuristic that is 0 everywhere, run on the same
\* weighted graph, initial state, goal predicate and successor order, end the
\* same way and return the same path with the same cumulative costs.
C7_UCSEqualsAStarZero ==
    (strategy = "AStar" /\ m_heuristic = ZeroOn /\ Ended) => Outcome = first

\* Both have returned the same path of two edges, on which a state has a cost.
C7_Witness ==
    /\ strategy = "AStar"
    /\ m_heuristic = ZeroOn
    /\ pc = "done"
    /\ result.some
    /\ Len(result.trace) = 3
    /\ ReturnedCost > 0
    /\ first = Outcome

\* C8: AStar with an admissible heuristic returns a path whose cumulative
\* cost is the cost of the path UCS returns, and that cost is the least cost
\* of a path from the initial state to a goal state.
C8_AStarOptimal ==
    (strategy = "AStar" /\ Admissible /\ pc = "done" /\ result.some) =>
        /\ ReturnedCost = LeastCost[m_initial]
        /\ first.pc = "done"
        /\ first.some
        /\ first.path[Len(first.path)].cost = ReturnedCost

\* The states perform() has called m_successors on in this search.
ExpandedStates == { s \in States : expansions[s] > 0 }

\* C11: after every completed perform(), whether it returned a path or
\* None, visited() yields the set of states expanded during that search.
C11_VisitedAfterPerform == pc = "done" => VisitedStates = ExpandedStates

\* C14: whenever perform() returns, the arena of nodes, the frontier and the
\* tracker are all empty.
C14_EmptyAtReturn ==
    pc = "done" => (m_nodes = << >> /\ m_frontier = << >> /\ m_visited = {})

\* C15: the goal test comes before the marking: a node whose state satisfies
\* the goal predicate is never in the visited set and its state is never
\* expanded, for every strategy.
C15_GoalNeverMarked ==
    /\ \A p \in m_visited : m_nodes[p].state \notin m_is_goal
    /\ \A s \in m_is_goal : expansions[s] = 0

\* A goal node has been popped after two other states were marked and expanded.
C15_Witness ==
    /\ pc = "done"
    /\ result.some
    /\ Cardinality(ExpandedStates) >= 2
    /\ PathStates[Len(PathStates)] \in m_is_goal

\* The state of the node at position i of the frontier.
FrontierState(i) == m_nodes[m_frontier[i]].state

\* C16: under BFS and DFS the frontier never holds a node of a state that is
\* already expanded, and never two nodes of one state.
C16_FrontierStatesDistinct ==
    (strategy \in {"BFS", "DFS"} /\ pc = "loop") =>
        /\ \A i \in DOMAIN m_frontier : FrontierState(i) \notin VisitedStates
        /\ \A i, j \in DOMAIN m_frontier : FrontierState(i) = FrontierState(j) => i = j

\* The nodes of a state that were admitted to the frontier in this call:
\* m_nodes keeps the root and every node frontier_push accepted.
AdmittedNodes(s) == { p \in DOMAIN m_nodes : m_nodes[p].state = s }

\* C17: under UCS every state is admitted to the frontier at most once
\* during a perform() call.
C17_UCSFirstAdmissionWins ==
    strategy = "UCS" => \A s \in States : Cardinality(AdmittedNodes(s)) <= 1

\* C13: when the frontier of IDDFS empties in a pass that made a node deeper
\* than the cutoff, the next step clears arena and tracker, lowers the flag,
\* raises the cutoff by exactly 1, puts a fresh root node into arena and
\* frontier and stays in the loop without returning; the cutoff never
\* decreases while perform() runs.
C13_RestartProtocol ==
    [][ (strategy = "IDDFS" /\ pc = "loop") =>
          /\ m_maximum_search_depth' >= m_maximum_search_depth
          /\ (m_frontier = << >> /\ too_deep) =>
                /\ pc' = "loop"
                /\ result' = result
                /\ m_visited' = {}
                /\ m_increase_search_depth' = FALSE
                /\ m_maximum_search_depth' = m_maximum_search_depth + 1
                /\ m_nodes' = << Node(m_initial, nullptr, 0, 0, 0) >>
                /\ m_frontier' = << 1 >> ]_vars

\* IDDFS has just restarted for the second time.
C13_Witness ==
    /\ strategy = "IDDFS"
    /\ pc = "loop"
    /\ Len(cutoffs) = 3
    /\ m_visited = {}
    /\ m_frontier = << 1 >>
    /\ Len(m_nodes) = 1

\* ------------------------------------------------- perform() called again

\* The caller has the result of perform() and calls perform() once more on
\* the same engine: the members are as the first call left them.
CallAgain ==
    /\ pc = "done"
    /\ first = NoRun
    /\ first' = Outcome
    /\ pc' = "idle"
    /\ UNCHANGED << input, runes, messenger, m_nodes, m_frontier, m_visited, m_maximum_search_depth,
                    m_increase_search_depth, node, found, result, expansions,
                    cutoffs, too_deep >>

NextAgain == Start \/ Restart \/ Exhausted \/ FoundGoal \/ Expand \/ BadAlloc \/ CallAgain

\* Two calls of perform() on one engine.
SpecAgain == Init /\ [][NextAgain]_vars

\* C12: a second perform() on the same engine starts from the configuration
\* the first call started from (empty arena, frontier and tracker; for IDDFS
\* the cutoff 3 and the flag lowered) and returns what the first call returned.
C12_NoCrossInvocationState ==
    first # NoRun =>
        /\ pc = "idle" =>
              /\ m_nodes = << >>
              /\ m_frontier = << >>
              /\ m_visited = {}
              /\ m_maximum_search_depth = InitialDepth
              /\ m_increase_search_depth = FALSE
        /\ pc = "done" => Outcome = first

\* ------------------------------------------------- AStar on diamond graphs

\* The diamond 0 -> 1 -> 3, 0 -> 2 -> 3, with the successors of 0 in either
\* order and with or without the edge 3 -> 0 that closes a cycle.
DiamondGraphs ==
    { [s \in States |-> CASE s = 0 -> a [] s = 1 -> << 3 >> [] s = 2 -> << 3 >>
                           [] s = 3 -> d [] OTHER -> << >>] :
        a \in { << 1, 2 >>, << 2, 1 >> }, d \in { << >>, << 0 >> } }

\* Every cost up to MaxCost and every estimate up to MaxGuess on 1, 2 and 3.
DiamondCosts ==
    { [s \in States |-> IF s \in 1 .. 3 THEN f[s] ELSE 0] : f \in [1 .. 3 -> 0 .. MaxCost] }

DiamondHeuristics ==
    { [s \in States |-> IF s \in 1 .. 3 THEN f[s] ELSE 0] : f \in [1 .. 3 -> 0 .. MaxGuess] }

InitAStar ==
    /\ m_initial = 0
    /\ strategy = "AStar"
    /\ m_successors \in DiamondGraphs
    /\ m_is_goal \in { {}, {3} }
    /\ state_cost \in DiamondCosts
    /\ m_heuristic \in DiamondHeuristics
    /\ NoBoard
    /\ NoPlayers
    /\ NoMessenger
    /\ Constructed

NextAStar == Start \/ Exhausted \/ FoundGoal \/ Expand \/ BadAlloc

SpecAStar == InitAStar /\ [][NextAStar]_vars

\* The iteration of the loop that comes next: the node it pops, whether it
\* expands it, and the tracker its candidates are checked against.
NextPop == frontier_pop(m_nodes, m_frontier)

Expanding ==
    /\ pc = "loop"
    /\ m_frontier # << >>
    /\ m_nodes[NextPop.node].state \notin m_is_goal

NextSuccessors == m_successors[m_nodes[NextPop.node].state]

\* The successor loop of that iteration after its first i candidates.
LoopUpTo(i) ==
    expand_loop(m_nodes, m_visited \cup {NextPop.node}, NextPop.frontier,
                m_increase_search_depth, NextPop.node, SubSeq(NextSuccessors, 1, i))

\* The i-th candidate of that iteration, whether make_node made it, and
\* whether frontier_push returned true for it.
Candidate(i) == make_node(LoopUpTo(i - 1).nodes, NextSuccessors[i], NextPop.node)

Made(i) == LoopUpTo(i).ok

Admitted(i) == Made(i) /\ Len(LoopUpTo(i).nodes) = Len(LoopUpTo(i - 1).nodes) + 1

\* The totals the tracker holds for state s when the candidates are checked.
TrackedTotals(s) ==
    { m_nodes[q].total : q \in { p \in m_visited \cup {NextPop.node} : m_nodes[p].state = s } }

\* C18: a candidate of AStar whose state is tracked with a strictly greater
\* total than its own is admitted: frontier_push returns true and the
\* candidate enters the frontier.
C18_AStarReopens ==
    (strategy = "AStar" /\ Expanding) =>
        \A i \in 1 .. Len(NextSuccessors) :
            ( /\ Made(i)
              /\ TrackedTotals(NextSuccessors[i]) # {}
              /\ Min(TrackedTotals(NextSuccessors[i])) > Candidate(i).total )
            => Admitted(i)

\* AStar is about to admit a candidate for a state it expanded with a
\* greater total.
C18_Witness ==
    /\ strategy = "AStar"
    /\ Expanding
    /\ \E i \in 1 .. Len(NextSuccessors) :
          /\ TrackedTotals(NextSuccessors[i]) # {}
          /\ Min(TrackedTotals(NextSuccessors[i])) > Candidate(i).total
          /\ Admitted(i)

\* C19: a candidate of AStar whose state is tracked with a total less than
\* or equal to its own is never admitted to the frontier.
C19_AStarMonotonic ==
    (strategy = "AStar" /\ Expanding) =>
        \A i \in 1 .. Len(NextSuccessors) :
            ( /\ Made(i)
              /\ TrackedTotals(NextSuccessors[i]) # {}
              /\ Min(TrackedTotals(NextSuccessors[i])) <= Candidate(i).total )
            => ~Admitted(i)

\* The totals m_visited holds for state s.
StoredTotals(s) == { m_nodes[q].total : q \in { p \in m_visited : m_nodes[p].state = s } }

\* C20: the tracker of AStar holds one total for every tracked state, the
\* least the state has been expanded with: expanding the state again with a
\* smaller total replaces the stored total.
C20_TrackerHoldsBest ==
    strategy = "AStar" => \A s \in States : Cardinality(StoredTotals(s)) <= 1

\* ------------------------------------------------------ IDDFS admission

\* The depths the tracker holds for state s when the candidates are checked.
TrackedDepths(s) ==
    { m_nodes[q].k : q \in { p \in m_visited \cup {NextPop.node} : m_nodes[p].state = s } }

\* C21: in an IDDFS pass with cutoff L every node in the frontier has depth
\* k <= L; a candidate with k > L is never pushed, and every such rejection
\* raises the flag m_increase_search_depth, also when the state of the
\* candidate is already tracked.
C21_IDDFSDepthCutoff ==
    (strategy = "IDDFS" /\ pc = "loop") =>
        /\ \A i \in DOMAIN m_frontier : m_nodes[m_frontier[i]].k <= m_maximum_search_depth
        /\ Expanding =>
              \A i \in 1 .. Len(NextSuccessors) :
                  (Made(i) /\ Candidate(i).k > m_maximum_search_depth)
                  => (~Admitted(i) /\ LoopUpTo(i).incr)

\* IDDFS is about to reject, for its depth, a candidate whose state is
\* tracked, and to raise the flag that was not yet raised.
C21_Witness ==
    /\ strategy = "IDDFS"
    /\ Expanding
    /\ ~m_increase_search_depth
    /\ \E i \in 1 .. Len(NextSuccessors) :
          /\ Candidate(i).k > m_maximum_search_depth
          /\ TrackedDepths(NextSuccessors[i]) # {}
          /\ ~Admitted(i)
          /\ LoopUpTo(i).incr

\* C22: IDDFS admits a candidate only if its state is untracked or tracked
\* only at strictly greater depths: a state found again at a depth equal to
\* or greater than a tracked depth is not admitted again.
C22_IDDFSShallowerOnly ==
    (strategy = "IDDFS" /\ Expanding) =>
        \A i \in 1 .. Len(NextSuccessors) :
            Admitted(i) => \A d \in TrackedDepths(NextSuccessors[i]) : d > Candidate(i).k

\* ------------------------------------------------------- pop disciplines

\* The nodes the frontier holds after the pop of the next iteration.
Remaining == Range(NextPop.frontier)

\* The pop takes exactly one node out of the frontier.
PopsOne ==
    /\ NextPop.node \in Range(m_frontier)
    /\ Remaining = Range(m_frontier) \ {NextPop.node}
    /\ Len(NextPop.frontier) = Len(m_frontier) - 1

\* C23: BFS always pops the node that has been in the frontier longest, DFS
\* and IDDFS always pop the node pushed most recently.  Within a call the
\* position of a node in m_nodes is the order in which it was pushed.
C23_DequePopDiscipline ==
    (IsVoidCompare(strategy) /\ pc = "loop" /\ m_frontier # << >>) =>
        /\ PopsOne
        /\ strategy = "BFS" => \A q \in Remaining : NextPop.node < q
        /\ strategy \in {"DFS", "IDDFS"} => \A q \in Remaining : NextPop.node > q

\* DFS, with nodes popped before, holds three nodes and pops the newest.
C23_Witness ==
    /\ strategy = "DFS"
    /\ pc = "loop"
    /\ node # nullptr
    /\ Len(m_frontier) >= 3
    /\ NextPop.node = Len(m_nodes)

\* The key the priority queue orders a node by.
Key(p) == IF strategy = "UCS" THEN m_nodes[p].cost ELSE m_nodes[p].total

\* C24: every node UCS pops has a cost less than or equal to the cost of
\* every node that stays in the frontier, and every node AStar pops has a
\* total less than or equal to the total of every node that stays.
C24_PriorityPopDiscipline ==
    (~IsVoidCompare(strategy) /\ pc = "loop" /\ m_frontier # << >>) =>
        /\ PopsOne
        /\ \A q \in Remaining : Key(NextPop.node) <= Key(q)

\* UCS pops a node that was pushed after a dearer node still in the frontier.
C24_Witness ==
    /\ strategy = "UCS"
    /\ pc = "loop"
    /\ Len(m_frontier) >= 3
    /\ \E q \in Remaining : q < NextPop.node /\ Key(q) > Key(NextPop.node)

\* ---------------------------------------------------------- node payloads

RECURSIVE ParentLinks(_)
\* The number of parent links from the node at p to a node without parent.
ParentLinks(p) ==
    IF m_nodes[p].parent = nullptr THEN 0 ELSE 1 + ParentLinks(m_nodes[p].parent)

RECURSIVE StepCosts(_)
\* The sum of the step costs of the states on the parent chain of the node
\* at p, the state of the node without parent left out.
StepCosts(p) ==
    IF m_nodes[p].parent = nullptr THEN 0
    ELSE state_cost[m_nodes[p].state] + StepCosts(m_nodes[p].parent)

\* C25: in IDDFS the root node has k = 0 and every other node has
\* k = parent.k + 1, so k is the number of parent links from the node to
\* the root.
C25_DepthPayload ==
    strategy = "IDDFS" =>
        \A p \in DOMAIN m_nodes :
            /\ m_nodes[p].parent = nullptr => m_nodes[p].k = 0
            /\ m_nodes[p].parent # nullptr => m_nodes[p].k = m_nodes[m_nodes[p].parent].k + 1
            /\ m_nodes[p].k = ParentLinks(p)

\* IDDFS holds a node four parent links away from the root.
C25_Witness ==
    /\ strategy = "IDDFS"
    /\ \E p \in DOMAIN m_nodes : ParentLinks(p) = 4 /\ m_nodes[p].k = 4

RECURSIVE ParentChain(_)
\* The pointers on the parent chain of the node at p, p first.
ParentChain(p) ==
    IF p = nullptr THEN << >> ELSE << p >> \o ParentChain(m_nodes[p].parent)

\* C27: the parent references of the nodes of a pass form a tree: exactly one
\* node, the root holding the initial state, has no parent, and the parent
\* chain of every node ends at that root without passing a node twice.
C27_ParentTree ==
    m_nodes # << >> =>
        /\ { p \in DOMAIN m_nodes : m_nodes[p].parent = nullptr } = {1}
        /\ m_nodes[1].state = m_initial
        /\ \A p \in DOMAIN m_nodes :
              /\ m_nodes[p].parent < p
              /\ LET chain == ParentChain(p)
                 IN  /\ chain[Len(chain)] = 1
                     /\ Cardinality(Range(chain)) = Len(chain)

\* BFS holds a tree in which a node has two children and a grandchild.
C27_Witness ==
    /\ strategy = "BFS"
    /\ pc = "loop"
    /\ \E p, q, c \in DOMAIN m_nodes :
          /\ p # q
          /\ m_nodes[p].parent = 1
          /\ m_nodes[q].parent = 1
          /\ m_nodes[c].parent = p

\* C28: at every iteration of the loop, also right after a restart of IDDFS,
\* every node of the arena is the root or a node that was admitted, so it is
\* pending in the frontier or marked in the visited set, and every node the
\* frontier, the visited set or a parent reference points to is a node of
\* the arena.
C28_ArenaOwnsReferences ==
    pc = "loop" =>
        /\ Range(m_frontier) \subseteq DOMAIN m_nodes
        /\ m_visited \subseteq DOMAIN m_nodes
        /\ \A p \in DOMAIN m_nodes : m_nodes[p].parent \in DOMAIN m_nodes \cup {nullptr}
        /\ DOMAIN m_nodes = Range(m_frontier) \cup m_visited
        /\ Range(m_frontier) \cap m_visited = {}
        /\ Cardinality(Range(m_frontier)) = Len(m_frontier)

\* IDDFS is at work in the pass after its first restart.
C28_Witness ==
    /\ strategy = "IDDFS"
    /\ pc = "loop"
    /\ Len(cutoffs) = 2
    /\ Cardinality(m_visited) >= 2
    /\ m_frontier # << >>

\* C29: expanding a state without successors pushes nothing and the loop
\* goes on; a search whose initial state is no goal and has no successors
\* ends by returning None after exactly one expansion, under IDDFS without
\* a restart.
C29_NoSuccessors ==
    [][ /\ (Expanding /\ NextSuccessors = << >>) =>
              /\ pc' = "loop"
              /\ m_nodes' = m_nodes
              /\ m_frontier' = NextPop.frontier
              /\ m_visited' = m_visited \cup {NextPop.node}
        /\ ( /\ m_successors[m_initial] = << >>
             /\ m_initial \notin m_is_goal
             /\ pc = "loop"
             /\ pc' # "loop" ) =>
              /\ pc' = "done"
              /\ result' = None
              /\ expansions' = [s \in States |-> IF s = m_initial THEN 1 ELSE 0]
              /\ cutoffs' = << InitialDepth >> ]_vars

\* IDDFS has returned None for an initial state without successors.
C29_Witness ==
    /\ strategy = "IDDFS"
    /\ pc = "done"
    /\ result = None
    /\ m_successors[m_initial] = << >>
    /\ expansions[m_initial] = 1

\* ----------------------------------------------------- Runes::connected()

\* The boards the actions of Runes build: every edge is added in both
\* directions between two vertices of the board (PLACE_PLAYER_RUNE), and
\* remove_vertex erases the edges to the vertex it removes.
Boards ==
    UNION { { b \in [K -> SUBSET K] :
                \A a \in K : a \notin b[a] /\ \A c \in b[a] : a \in b[c] }
            : K \in SUBSET SmallStates }

\* Graph::keys().
keys(board) == DOMAIN board

\* Runes::neighbors: nothing for a hexagon outside the board, otherwise the
\* keys of the vertex's edges in the iteration order of the unordered_map,
\* which is one of the two orders here.
neighbors(board, up) ==
    [hex \in States |->
        IF hex \notin keys(board) THEN << >>
        ELSE IF up THEN SetToSeq(board[hex])
        ELSE Reverse(SetToSeq(board[hex]))]

\* connected() up to the call of perform(): it = m_board.begin(), which may
\* point to any vertex, and the DFS over neighbors whose goal is always
\* false.  With an empty board no engine is made.
InitConnected ==
    /\ m_board \in Boards
    /\ connected = NotCalled
    /\ strategy = "DFS"
    /\ m_initial \in (IF keys(m_board) = {} THEN {0} ELSE keys(m_board))
    /\ m_successors \in { neighbors(m_board, up) : up \in BOOLEAN }
    /\ m_is_goal = {}
    /\ state_cost = ZeroOn
    /\ m_heuristic = ZeroOn
    /\ NoPlayers
    /\ NoMessenger
    /\ Constructed

\* if (it == m_board.end()) return true;
ConnectedEmpty ==
    /\ connected = NotCalled
    /\ keys(m_board) = {}
    /\ connected' = Returned(TRUE)
    /\ UNCHANGED << input, m_board, m_players, m_history, performed, messenger,
                    m_nodes, m_frontier, m_visited,
                    m_maximum_search_depth, m_increase_search_depth, pc, node,
                    found, result, expansions, cutoffs, too_deep, first >>

\* s.perform(it.key());
ConnectedPerform ==
    /\ connected = NotCalled
    /\ keys(m_board) # {}
    /\ Start

\* The loop over m_board.keys() once perform() has returned.
ConnectedReturn ==
    /\ connected = NotCalled
    /\ keys(m_board) # {}
    /\ pc = "done"
    /\ connected' = Returned(\A hex \in keys(m_board) : hex \in VisitedStates)
    /\ UNCHANGED << input, m_board, m_players, m_history, performed, messenger,
                    m_nodes, m_frontier, m_visited,
                    m_maximum_search_depth, m_increase_search_depth, pc, node,
                    found, result, expansions, cutoffs, too_deep, first >>

NextConnected ==
    ConnectedEmpty \/ ConnectedPerform \/ Exhausted \/ Expand \/ BadAlloc
        \/ ConnectedReturn

\* One call of Runes::connected() on a board.
SpecConnected == InitConnected /\ [][NextConnected]_vars

\* The vertices reachable through board edges from the start vertex.
BoardReachable == ReachableFrom({m_initial})

\* What connected() has to return.
IsConnected == keys(m_board) = {} \/ keys(m_board) \subseteq BoardReachable

\* C30: connected() returns, and what it returns is TRUE exactly when the
\* board is empty or every vertex of the board is reachable through board
\* edges from the start vertex chosen by begin(); it is FALSE when some
\* vertex of the board is not in the visited set of the search.
C30_Connected ==
    /\ pc # "bad_alloc"
    /\ connected.returned =>
          /\ connected.value = IsConnected
          /\ keys(m_board) # {} =>
                (~connected.value <=> \E hex \in keys(m_board) : hex \notin VisitedStates)

\* ---------------------------------------------------------------- Messenger

Workers == 1 .. NumWorkers

\* Two topics: m_channels is an array of two channels.
Topics == {0, 1}

\* The messages that are published, numbered in the order of publication.
Messages == {1, 2, 3}

\* The engine and the game are not used by the Messenger.
NoSearch ==
    /\ strategy = "BFS"
    /\ m_initial = 0
    /\ m_successors = [s \in States |-> << >>]
    /\ m_is_goal = {}
    /\ state_cost = ZeroOn
    /\ m_heuristic = ZeroOn
    /\ Constructed

\* A worker thread at the head of its loop: message {nullptr}, topic {0},
\* channel_lock {} (it owns no mutex), found = false.
AtWhile ==
    [pc |-> "while", it |-> 0, topic |-> 0, message |-> nullptr, function |-> 0]

\* Messenger::Messenger: the worker threads are started; nothing is
\* subscribed, nothing is published.
InitMessenger ==
    /\ NoSearch
    /\ NoBoard
    /\ NoPlayers
    /\ m_queue = << >>
    /\ m_mutex = Free
    /\ m_channels = [t \in Topics |-> [mutex |-> Free, callbacks |-> 0]]
    /\ m_stop_source = FALSE
    /\ m_workers = [w \in Workers |-> AtWhile]
    /\ published = 0
    /\ delivered = [t \in Topics |-> << >>]

\* erase leaving the message in the queue.
erase_nothing(queue, it) == queue

\* std::deque::erase(it).
erase(queue, it) ==
    [i \in 1 .. (Len(queue) - 1) |-> IF i < it THEN queue[i] ELSE queue[i + 1]]

\* Messenger::subscribe: under the channel's mutex, one more callback.
subscribe(t) ==
    /\ m_channels[t].mutex = Free
    /\ m_channels[t].callbacks < MaxCallbacks
    /\ m_channels' = [m_channels EXCEPT ![t].callbacks = @ + 1]
    /\ UNCHANGED << input, runes, m_queue, m_mutex, m_stop_source, m_workers,
                    published, delivered, m_nodes, m_frontier, m_visited,
                    m_maximum_search_depth, m_increase_search_depth, pc, node,
                    found, result, expansions, cutoffs, too_deep, first >>

\* Messenger::publish: under m_mutex the message goes to the back of the
\* queue; notify_all wakes the waiting workers (see WorkerWait).
publish(t) ==
    /\ published + 1 \in Messages
    /\ m_mutex = Free
    /\ m_queue' = Append(m_queue, [topic |-> t, message |-> published + 1])
    /\ published' = published + 1
    /\ UNCHANGED << input, runes, m_mutex, m_channels, m_stop_source, m_workers,
                    delivered, m_nodes, m_frontier, m_visited,
                    m_maximum_search_depth, m_increase_search_depth, pc, node,
                    found, result, expansions, cutoffs, too_deep, first >>

\* m_stop_source.request_stop(), by ~Messenger or by whoever shares the
\* stop source.
request_stop ==
    /\ ~m_stop_source
    /\ m_stop_source' = TRUE
    /\ UNCHANGED << input, runes, m_queue, m_mutex, m_channels, m_workers,
                    published, delivered, m_nodes, m_frontier, m_visited,
                    m_maximum_search_depth, m_increase_search_depth, pc, node,
                    found, result, expansions, cutoffs, too_deep, first >>

\* What no step of a worker changes.
WorkerLeaves ==
    UNCHANGED << input, runes, published, m_stop_source, m_nodes, m_frontier,
                 m_visited, m_maximum_search_depth, m_increase_search_depth, pc,
                 node, found, result, expansions, cutoffs, too_deep, first >>

\* while (!stop.stop_requested()), and the locals of the iteration.
WorkerWhile(w) ==
    /\ m_workers[w].pc = "while"
    /\ m_workers' = [m_workers EXCEPT ![w] =
            IF m_stop_source THEN [AtWhile EXCEPT !.pc = "returned"]
            ELSE [AtWhile EXCEPT !.pc = "lock"]]
    /\ UNCHANGED << m_queue, m_mutex, m_channels, delivered >>
    /\ WorkerLeaves

\* std::unique_lock lock(m_mutex) and while (m_queue.empty()): with an empty
\* queue the wait gives the mutex back, otherwise the scan begins.
WorkerLock(w) ==
    /\ m_workers[w].pc = "lock"
    /\ m_mutex = Free
    /\ IF m_queue = << >>
       THEN /\ m_workers' = [m_workers EXCEPT ![w].pc = "wait"]
            /\ m_mutex' = Free
       ELSE /\ m_workers' = [m_workers EXCEPT ![w].pc = "for", ![w].it = 1]
            /\ m_mutex' = w
    /\ UNCHANGED << m_queue, m_channels, delivered >>
    /\ WorkerLeaves

\* WorkerWait on a wait that takes no stop token: only a message wakes it.
WorkerWait_without_stop_token(w) ==
    /\ m_workers[w].pc = "wait"
    /\ m_mutex = Free
    /\ m_queue # << >>
    /\ IF m_stop_source
       THEN /\ m_workers' = [m_workers EXCEPT ![w].pc = "returned"]
            /\ m_mutex' = Free
       ELSE /\ m_workers' = [m_workers EXCEPT ![w].pc = "for", ![w].it = 1]
            /\ m_mutex' = w
    /\ UNCHANGED << m_queue, m_channels, delivered >>
    /\ WorkerLeaves

\* m_condition.wait(lock, stop, pred) returns, with m_mutex held again, once
\* a stop is requested or the queue is not empty; the worker returns on a
\* stop and otherwise begins the scan.
WorkerWait(w) ==
    /\ m_workers[w].pc = "wait"
    /\ m_mutex = Free
    /\ m_stop_source \/ m_queue # << >>
    /\ IF m_stop_source
       THEN /\ m_workers' = [m_workers EXCEPT ![w].pc = "returned"]
            /\ m_mutex' = Free
       ELSE /\ m_workers' = [m_workers EXCEPT ![w].pc = "for", ![w].it = 1]
            /\ m_mutex' = w
    /\ UNCHANGED << m_queue, m_channels, delivered >>
    /\ WorkerLeaves

\* WorkerFor taking the first message of the queue whether or not its channel
\* can be locked.
WorkerFor_without_try_lock(w) ==
    LET it == m_workers[w].it IN
    /\ m_workers[w].pc = "for"
    /\ IF it > Len(m_queue)
       THEN /\ m_workers' = [m_workers EXCEPT ![w].pc = "sleep"]
            /\ m_mutex' = Free
            /\ UNCHANGED << m_queue, m_channels, delivered >>
       ELSE LET t == m_queue[it].topic IN
            /\ m_channels' = [m_channels EXCEPT ![t].mutex = w]
            /\ m_workers' = [m_workers EXCEPT ![w] =
                   [pc |-> "callbacks", it |-> it, topic |-> t,
                    message |-> m_queue[it].message, function |-> 1]]
            /\ m_queue' = erase(m_queue, it)
            /\ m_mutex' = Free
            /\ delivered' = [delivered EXCEPT ![t] =
                   Append(@, [message |-> m_queue[it].message, function |-> 0,
                              worker |-> w])]
    /\ WorkerLeaves

\* One round of for (it = m_queue.begin(); it != m_queue.end(); ++it): at the
\* end the block is left without a message; a message whose channel cannot
\* be locked is passed over; the first one whose channel can be locked is
\* erased from the queue and the block is left with the channel locked.
WorkerFor(w) ==
    LET it == m_workers[w].it IN
    /\ m_workers[w].pc = "for"
    /\ IF it > Len(m_queue)
       THEN /\ m_workers' = [m_workers EXCEPT ![w].pc = "sleep"]
            /\ m_mutex' = Free
            /\ UNCHANGED << m_queue, m_channels, delivered >>
       ELSE LET t == m_queue[it].topic IN
            IF m_channels[t].mutex # Free
            THEN /\ m_workers' = [m_workers EXCEPT ![w].it = it + 1]
                 /\ UNCHANGED << m_queue, m_mutex, m_channels, delivered >>
            ELSE /\ m_channels' = [m_channels EXCEPT ![t].mutex = w]
                 /\ m_workers' = [m_workers EXCEPT ![w] =
                        [pc |-> "callbacks", it |-> it, topic |-> t,
                         message |-> m_queue[it].message, function |-> 1]]
                 /\ m_queue' = erase(m_queue, it)
                 /\ m_mutex' = Free
                 /\ delivered' = [delivered EXCEPT ![t] =
                        Append(@, [message |-> m_queue[it].message, function |-> 0,
                                   worker |-> w])]
    /\ WorkerLeaves

\* if (!found) { sleep_for(1ms); continue; }
WorkerSleep(w) ==
    /\ m_workers[w].pc = "sleep"
    /\ m_workers' = [m_workers EXCEPT ![w].pc = "while"]
    /\ UNCHANGED << m_queue, m_mutex, m_channels, delivered >>
    /\ WorkerLeaves

\* The head of for (function : m_channels[topic].callbacks): after the last
\* callback the iteration ends and channel_lock gives the channel back; on a
\* stop the worker returns, which also gives it back; otherwise the next
\* callback is entered.
WorkerCallbacks(w) ==
    LET t == m_workers[w].topic IN
    /\ m_workers[w].pc = "callbacks"
    /\ IF m_workers[w].function > m_channels[t].callbacks
       THEN /\ m_workers' = [m_workers EXCEPT ![w].pc = "while"]
            /\ m_channels' = [m_channels EXCEPT ![t].mutex = Free]
       ELSE IF m_stop_source
       THEN /\ m_workers' = [m_workers EXCEPT ![w].pc = "returned"]
            /\ m_channels' = [m_channels EXCEPT ![t].mutex = Free]
       ELSE /\ m_workers' = [m_workers EXCEPT ![w].pc = "function"]
            /\ UNCHANGED m_channels
    /\ UNCHANGED << m_queue, m_mutex, delivered >>
    /\ WorkerLeaves

\* function(message.get()) returns.
WorkerFunction(w) ==
    LET t == m_workers[w].topic IN
    /\ m_workers[w].pc = "function"
    /\ delivered' = [delivered EXCEPT ![t] =
            Append(@, [message |-> m_workers[w].message,
                       function |-> m_workers[w].function, worker |-> w])]
    /\ m_workers' = [m_workers EXCEPT ![w].pc = "callbacks", ![w].function = @ + 1]
    /\ UNCHANGED << m_queue, m_mutex, m_channels >>
    /\ WorkerLeaves

\* Messenger::worker, one step.
worker(w) ==
    \/ WorkerWhile(w)
    \/ WorkerLock(w)
    \/ WorkerWait(w)
    \/ WorkerFor(w)
    \/ WorkerSleep(w)
    \/ WorkerCallbacks(w)
    \/ WorkerFunction(w)

NextMessenger ==
    \/ \E w \in Workers : worker(w)
    \/ \E t \in Topics : subscribe(t)
    \/ \E t \in Topics : publish(t)
    \/ request_stop

\* A Messenger, its worker threads, and the threads that subscribe, publish
\* and request the stop.
SpecMessenger == InitMessenger /\ [][NextMessenger]_vars

\* The same, every worker thread being scheduled again and again and every
\* callback returning.
FairMessenger == SpecMessenger /\ \A w \in Workers : WF_vars(worker(w))

\* The worker has a message and is at, or in, its callbacks.
CallingBack(w) == m_workers[w].pc \in {"callbacks", "function"}

\* C31: for each topic at most one worker at a time is running the topic's
\* callbacks, and that worker holds the channel's mutex; two messages of one
\* topic are never being called back at the same time.
C31_OneWorkerPerTopic ==
    \A w \in Workers :
        CallingBack(w) =>
            /\ m_channels[m_workers[w].topic].mutex = w
            /\ \A v \in Workers \ {w} :
                  CallingBack(v) => m_workers[v].topic # m_workers[w].topic

\* Two workers are inside callbacks at the same time, and a further message
\* of the topic of one of them is in the queue.
C31_Witness ==
    \E w \in Workers : \E v \in Workers \ {w} :
        /\ m_workers[w].pc = "function"
        /\ m_workers[v].pc = "function"
        /\ \E i \in 1 .. Len(m_queue) : m_queue[i].topic = m_workers[w].topic

\* The messages of a sequence of records are in the order of publication.
InPublishedOrder(seq) ==
    \A i \in 1 .. Len(seq) : \A j \in 1 .. Len(seq) :
        i < j => seq[i].message <= seq[j].message

\* The calls of the callbacks of a topic, in order.
IsCall(entry) == entry.function > 0

Calls(t) == SelectSeq(delivered[t], IsCall)

\* C32: the messages of a topic are passed to the topic's callbacks in the
\* order in which they were published; the messages left in the queue keep
\* that order.
C32_TopicOrder ==
    /\ \A t \in Topics : InPublishedOrder(Calls(t))
    /\ InPublishedOrder(m_queue)

\* The entries of the history with message m and function f: f = 0 is the
\* removal of m from the queue, f > 0 the call of callback f with it.
Entries(m, f) ==
    UNION { { <<t, i>> : i \in { j \in DOMAIN delivered[t] :
                                   /\ delivered[t][j].message = m
                                   /\ delivered[t][j].function = f } }
            : t \in Topics }

Removals(m) == Entries(m, 0)

CallsWith(m, f) == Entries(m, f)

InQueue(m) == \E i \in 1 .. Len(m_queue) : m_queue[i].message = m

\* The worker that has message m and is not through with its callbacks.
Holds(w, m) == CallingBack(w) /\ m_workers[w].message = m

\* Message m was removed from the queue and its worker is through with it.
Delivered(m) ==
    /\ Removals(m) # {}
    /\ \A w \in Workers : ~Holds(w, m)

\* Every published message is in the queue or was removed from it once, by
\* one worker; no callback was called twice with it; the worker that has it
\* has called the callbacks before the one it is at, and no other.
ExactlyOnce ==
    \A m \in Messages :
        /\ m <= published <=> (InQueue(m) \/ Removals(m) # {})
        /\ Cardinality(Removals(m)) <= 1
        /\ InQueue(m) => Removals(m) = {}
        /\ Cardinality({ w \in Workers : Holds(w, m) }) <= 1
        /\ \A f \in 1 .. MaxCallbacks :
              /\ Cardinality(CallsWith(m, f)) <= 1
              /\ \A w \in Workers :
                    Holds(w, m) =>
                        (CallsWith(m, f) # {} <=> f < m_workers[w].function)

\* A worker that is through with a message while no stop is requested has
\* called every callback the topic has with it.
ToEveryCallback ==
    \A m \in Messages : \A w \in Workers :
        (Holds(w, m) /\ ~Holds(w, m)' /\ ~m_stop_source) =>
            \A f \in 1 .. m_channels[m_workers[w].topic].callbacks :
                CallsWith(m, f) # {}

\* C33: as long as no stop is requested, every published message is removed
\* from the queue by one worker, once, and passed once to every callback
\* subscribed to its topic at that time; none is delivered twice and none
\* stays in the queue forever.
C33_EveryMessageDelivered ==
    /\ []ExactlyOnce
    /\ [][ToEveryCallback]_vars
    /\ \A m \in Messages : (m <= published) ~> (Delivered(m) \/ m_stop_source)

\* A message was passed to a callback and its worker went on, while no stop
\* is requested and a later message of the topic waits in the queue.
C33_Witness ==
    /\ ~m_stop_source
    /\ \E m \in Messages :
          /\ Delivered(m)
          /\ CallsWith(m, 1) # {}
          /\ \E i \in 1 .. Len(m_queue) : m_queue[i].message > m

RuneTypes == {"VITALITY"}

\* std::size_t player_id of an action: the identifiers ADD_PLAYER can have
\* produced and one more.
PlayerIds == 0 .. MaxPlayers

\* Player::Player: identifier and no runes.
Player(id) == [m_id |-> id, m_runes |-> << >>]

\* The process ended inside perform().
Crashed == [crashed |-> TRUE]

\* Runes::perform after action<A> returned: a successful action goes to the
\* history; success and action are returned.
perform(success, action) ==
    /\ m_history' = IF success THEN Append(m_history, action) ELSE m_history
    /\ performed' = [success |-> success, action |-> action]

\* What no perform() changes.
PerformLeaves ==
    UNCHANGED << input, m_board, connected, messenger, m_nodes, m_frontier,
                 m_visited, m_maximum_search_depth, m_increase_search_depth, pc,
                 node, found, result, expansions, cutoffs, too_deep, first >>

\* perform<ADD_PLAYER>: player_id = m_players.size(), the player is appended.
ADD_PLAYER ==
    /\ performed # Crashed
    /\ Len(m_players) < MaxPlayers
    /\ Len(m_history) < MaxHistory
    /\ m_players' = Append(m_players, Player(Len(m_players)))
    /\ perform(TRUE, [type |-> "ADD_PLAYER", player_id |-> Len(m_players)])
    /\ PerformLeaves

\* runes[data.rune] = data.n when the rune is absent, += data.n otherwise.
give(m_runes, rune, n) ==
    [r \in DOMAIN m_runes \cup {rune} |->
        IF r # rune THEN m_runes[r]
        ELSE IF rune \in DOMAIN m_runes THEN m_runes[rune] + n ELSE n]

\* The counts a player's runes can hold after a write through a reference
\* to no player.
AnyRunes == UNION { [R -> 0 .. MaxGive] : R \in SUBSET RuneTypes }

\* perform<GIVE_PLAYER_RUNE>: false when m_players.size() > player_id.
\* Otherwise m_players[player_id] is read past the end of the vector, which
\* is undefined: the process ends, or the runes are written to memory that
\* is no player, or to memory that is some player's runes.
GIVE_PLAYER_RUNE(player_id, rune, n) ==
    LET action == [type |-> "GIVE_PLAYER_RUNE", player_id |-> player_id,
                   rune |-> rune, n |-> n] IN
    /\ performed # Crashed
    /\ Len(m_history) < MaxHistory
    /\ IF Len(m_players) > player_id
       THEN /\ perform(FALSE, action)
            /\ UNCHANGED m_players
       ELSE \/ /\ performed' = Crashed
               /\ UNCHANGED << m_players, m_history >>
            \/ /\ perform(TRUE, action)
               /\ UNCHANGED m_players
            \/ /\ perform(TRUE, action)
               /\ \E p \in DOMAIN m_players : \E runes_ \in AnyRunes :
                     m_players' = [m_players EXCEPT ![p].m_runes = runes_]
    /\ PerformLeaves

InitRunes ==
    /\ NoSearch
    /\ NoBoard
    /\ NoPlayers
    /\ NoMessenger

NextRunes ==
    \/ ADD_PLAYER
    \/ \E player_id \in PlayerIds : \E rune \in RuneTypes : \E n \in 1 .. MaxGive :
          GIVE_PLAYER_RUNE(player_id, rune, n)

\* A game in which players are added and runes are given.
SpecRunes == InitRunes /\ [][NextRunes]_vars

\* C35: GIVE_PLAYER_RUNE for a player_id that an earlier ADD_PLAYER produced
\* succeeds, adds n to that player's count of the rune (the entry being
\* made at n when absent) and is appended to the history; for any other
\* player_id it fails, changes no player's runes and is not appended.
C35_GivePlayerRune ==
    [][ \A player_id \in PlayerIds : \A rune \in RuneTypes : \A n \in 1 .. MaxGive :
          GIVE_PLAYER_RUNE(player_id, rune, n) =>
              /\ performed' # Crashed
              /\ IF player_id < Len(m_players)
                 THEN /\ performed'.success
                      /\ m_players' = [m_players EXCEPT ![player_id + 1].m_runes =
                                          give(@, rune, n)]
                      /\ m_history' = Append(m_history, performed'.action)
                 ELSE /\ ~performed'.success
                      /\ m_players' = m_players
                      /\ m_history' = m_history ]_vars


====
